---------------------------- MODULE Spec2Model ----------------------------
(***************************************************************************)
(* Model of sdf/bezier.go: the Bezier curve builder (Add, Mid, HandleFwd,   *)
(* HandleRev, Handle, Close), the fixups pipeline (handles, closure,        *)
(* validate), the segmentation loop and spline construction of Polygon(),   *)
(* the coefficient computation of BezierPolynomial.Set and the sampling     *)
(* loop of Polygon().                                                       *)
(*                                                                          *)
(* Numbers.  A float64 value is modelled as a two-limb fixed point number   *)
(* <<h, l>> standing for h*U + l with U = 10^13 and |l| far below U, so     *)
(* that values 13 decades apart (the case POLY_EPSILON = 1e-12 is about)    *)
(* fit TLC's integers.  Arithmetic on limbs is exact; float rounding is     *)
(* not modelled.  Angles are counted in quarter turns (PI = 2).             *)
(***************************************************************************)
EXTENDS Integers, Sequences, FiniteSets, TLC

VARIABLES
    vlist,      \* Bezier.vlist: the curve's list of BezierVertex
    closed,     \* Bezier.closed
    pc,         \* "build" | "done" (Polygon was called) | "panic" (a builder call panicked)
    err,        \* panic message of the last call, "" when it returned
    pre,        \* the curve as it was when Polygon() was last called
    splines,    \* Polygon(): the control point lists of the splines it built
    polygon,    \* Polygon(): per spline <<order, f0(0), f0(1)>>; <<>> when nothing is returned
    poly,       \* a BezierPolynomial (Set specification)
    ctrl,       \* the control values handed to Set
    perr,       \* panic message of Set, "" when it returned
    ppc,        \* "new" | "set"
    sorder,     \* order of the spline being sampled
    t,          \* sampling parameter t, in units of dtmin / StepScale
    npts,       \* number of points the spline has added to the polygon
    firstT,     \* t of the first point added (-1: none yet)
    lastT,      \* t of the last point added (-1: none yet)
    spc         \* "loop" | "done"

vars == <<vlist, closed, pc, err, pre, splines, polygon,
          poly, ctrl, perr, ppc, sorder, t, npts, firstT, lastT, spc>>

curveVars == <<vlist, closed, pc, err, pre, splines, polygon>>
polyVars == <<poly, ctrl, perr, ppc>>
sampleVars == <<sorder, t, npts, firstT, lastT, spc>>

-----------------------------------------------------------------------------
(* Bounds *)

\* the builder adds at most this many vertices to a curve
MaxVerts == 3
\* Set is handed at most this many control values
MaxCtrl == 6
\* the longest vertex list of the curves Polygon() is called on directly
MaxSegLen == 7

-----------------------------------------------------------------------------
(* Constants of the program *)

ENDPOINT == 0
MIDPOINT == 1
\* half a turn, in quarter turns
PI == 2
\* POLY_EPSILON (1e-12) times the limb unit U (10^13)
POLY_EPSILON_U == 10

\* coordinates the builder is called with
Coords == {<<0, 0>>, <<2, 0>>}
\* handle radii the builder is called with
FwdRadii == {0, 1}
RevRadii == {-1}

\* the zero value of V2
V2Zero == <<0, 0>>

\* the zero value of BezierVertex
BezierVertexZero ==
    [vtype |-> ENDPOINT, vertex |-> V2Zero, handle_fwd |-> V2Zero, handle_rev |-> V2Zero]

-----------------------------------------------------------------------------
(* Helpers of the package that bezier.go calls *)

Abs(x) == IF x < 0 THEN -x ELSE x

\* the element of a one-element set; The({e(x) : x \in {v}}) is e(v) with the
\* local x assigned the value of v once
The(S) == CHOOSE r \in S : TRUE

\* V2.Add
V2Add(a, b) == <<a[1] + b[1], a[2] + b[2]>>

\* V2.Equals(b, 0): exact coordinate equality
Equals(a, b) == a[1] = b[1] /\ a[2] = b[2]

\* PolarToXY(r, theta), theta in quarter turns
PolarToXY(r, theta) ==
    CASE theta % 4 = 0 -> <<r, 0>>
      [] theta % 4 = 1 -> <<0, r>>
      [] theta % 4 = 2 -> <<-r, 0>>
      [] theta % 4 = 3 -> <<0, -r>>

-----------------------------------------------------------------------------
(* Builder *)

\* Bezier.AddV2: the vertex list after the call
AddV2(vl, x) == Append(vl, [BezierVertexZero EXCEPT !.vertex = x, !.vtype = ENDPOINT])

\* BezierVertex.Mid
MidV(v) == [v EXCEPT !.vtype = MIDPOINT]

\* HandleFwd without the check of the vertex type
HandleFwdV_NoCheck(v, theta, r) ==
    [v |-> [v EXCEPT !.handle_fwd = <<Abs(r), theta>>], err |-> ""]

\* BezierVertex.HandleFwd: [v |-> the vertex afterwards, err |-> panic message]
HandleFwdV(v, theta, r) ==
    IF v.vtype = MIDPOINT
    THEN [v |-> v, err |-> "can't place a handle on a curve midpoint"]
    ELSE [v |-> [v EXCEPT !.handle_fwd = <<Abs(r), theta>>], err |-> ""]

\* BezierVertex.HandleRev
HandleRevV(v, theta, r) ==
    IF v.vtype = MIDPOINT
    THEN [v |-> v, err |-> "can't place a handle on a curve midpoint"]
    ELSE [v |-> [v EXCEPT !.handle_rev = <<Abs(r), theta>>], err |-> ""]

\* BezierVertex.Handle: HandleFwd, then (unless it panicked) HandleRev
HandleV(v, theta, fwd, rev) ==
    LET f == HandleFwdV(v, theta, fwd)
    IN IF f.err # "" THEN f ELSE HandleRevV(f.v, theta + PI, rev)

-----------------------------------------------------------------------------
(* Two-limb numbers <<h, l>> = h*U + l *)

LZero == <<0, 0>>
\* a coordinate (a small integer) as a limb number
Lim(c) == <<0, c>>
LAdd(x, y) == <<x[1] + y[1], x[2] + y[2]>>
LMul(k, x) == <<k * x[1], k * x[2]>>
LNeg(x) == LMul(-1, x)
LIsNeg(x) == x[1] < 0 \/ (x[1] = 0 /\ x[2] < 0)
\* Abs on a float64
LAbs(x) == IF LIsNeg(x) THEN LNeg(x) ELSE x

\* ZeroSmall(x, y, POLY_EPSILON): x, or 0 when |x| <= POLY_EPSILON * y.
\* With y = yh*U + yl, POLY_EPSILON * y = 10*yh + yl*1e-12, and |yl*1e-12| < 1.
ZeroSmall(x, y) ==
    LET ax == LAbs(x)
        thr == IF y[2] >= 0 THEN POLY_EPSILON_U * y[1] ELSE POLY_EPSILON_U * y[1] - 1
    IN IF ax[1] = 0 /\ ax[2] <= thr THEN LZero ELSE x

-----------------------------------------------------------------------------
(* BezierPolynomial *)

\* the zero value of BezierPolynomial
PolyZero == [n |-> 0, a |-> LZero, b |-> LZero, c |-> LZero, d |-> LZero, e |-> LZero]

\* the coefficients with the cubic's c = 3*x0 - 6*x1 + 3*x2 and the quartic's
\* d = -4*x0 + 12*x1 - 12*x2 + 4*x3 each missing their last term
SetCoefficients_DroppedTerm(p, x) ==
    LET n == Len(x) - 1
        X(i) == x[i + 1]
    IN CASE n = 1 ->
              [p EXCEPT !.n = n, !.a = X(0), !.b = LAdd(LNeg(X(0)), X(1))]
         [] n = 2 ->
              [p EXCEPT !.n = n,
                        !.a = X(0),
                        !.b = LAdd(LMul(-2, X(0)), LMul(2, X(1))),
                        !.c = LAdd(X(0), LMul(-2, X(1)))]
         [] n = 3 ->
              [p EXCEPT !.n = n,
                        !.a = X(0),
                        !.b = LAdd(LMul(-3, X(0)), LMul(3, X(1))),
                        !.c = LAdd(LMul(3, X(0)), LMul(-6, X(1))),
                        !.d = LAdd(LAdd(LNeg(X(0)), LMul(3, X(1))), LAdd(LMul(-3, X(2)), X(3)))]
         [] n = 4 ->
              [p EXCEPT !.n = n,
                        !.a = X(0),
                        !.b = LAdd(LMul(-4, X(0)), LMul(4, X(1))),
                        !.c = LAdd(LMul(6, X(0)), LAdd(LMul(-12, X(1)), LMul(6, X(2)))),
                        !.d = LAdd(LMul(-4, X(0)), LAdd(LMul(12, X(1)), LMul(-12, X(2)))),
                        !.e = LAdd(LAdd(LAdd(X(0), LMul(-4, X(1))),
                                        LAdd(LMul(6, X(2)), LMul(-4, X(3)))), X(4))]
         [] OTHER -> [p EXCEPT !.n = n]

\* the coefficients Set computes from the control values, before the zeroing step
SetCoefficients(p, x) ==
    LET n == Len(x) - 1
        X(i) == x[i + 1]
        S2(u, v) == LAdd(u, v)
        S3(u, v, w) == LAdd(u, LAdd(v, w))
        S4(u, v, w, z) == LAdd(LAdd(u, v), LAdd(w, z))
        S5(u, v, w, z, y) == LAdd(S4(u, v, w, z), y)
    IN CASE n = 1 ->
              [p EXCEPT !.n = n,
                        !.a = X(0),
                        !.b = S2(LNeg(X(0)), X(1))]
         [] n = 2 ->
              [p EXCEPT !.n = n,
                        !.a = X(0),
                        !.b = S2(LMul(-2, X(0)), LMul(2, X(1))),
                        !.c = S3(X(0), LMul(-2, X(1)), X(2))]
         [] n = 3 ->
              [p EXCEPT !.n = n,
                        !.a = X(0),
                        !.b = S2(LMul(-3, X(0)), LMul(3, X(1))),
                        !.c = S3(LMul(3, X(0)), LMul(-6, X(1)), LMul(3, X(2))),
                        !.d = S4(LNeg(X(0)), LMul(3, X(1)), LMul(-3, X(2)), X(3))]
         [] n = 4 ->
              [p EXCEPT !.n = n,
                        !.a = X(0),
                        !.b = S2(LMul(-4, X(0)), LMul(4, X(1))),
                        !.c = S3(LMul(6, X(0)), LMul(-12, X(1)), LMul(6, X(2))),
                        !.d = S4(LMul(-4, X(0)), LMul(12, X(1)), LMul(-12, X(2)), LMul(4, X(3))),
                        !.e = S5(X(0), LMul(-4, X(1)), LMul(6, X(2)), LMul(-4, X(3)), X(4))]
         [] OTHER -> [p EXCEPT !.n = n]

\* the zeroing step of Set
ZeroSmallCoefficients(p) ==
    LET sum == LAdd(LAdd(LAdd(LAbs(p.a), LAbs(p.b)), LAdd(LAbs(p.c), LAbs(p.d))), LAbs(p.e))
    IN [p EXCEPT !.a = ZeroSmall(p.a, sum),
                 !.b = ZeroSmall(p.b, sum),
                 !.c = ZeroSmall(p.c, sum),
                 !.d = ZeroSmall(p.d, sum),
                 !.e = ZeroSmall(p.e, sum)]

\* Set that takes six control values for a polynomial of order 5
Set_OrderFive(p, x) ==
    The({IF q.n \in 1..5
         THEN [p |-> ZeroSmallCoefficients(q), err |-> ""]
         ELSE [p |-> q, err |-> "bad polynomial order"]
         : q \in {SetCoefficients(p, x)}})

\* BezierPolynomial.Set: [p |-> the polynomial afterwards, err |-> panic message]
Set(p, x) ==
    The({IF q.n \in 1..4
         THEN [p |-> ZeroSmallCoefficients(q), err |-> ""]
         ELSE [p |-> q, err |-> "bad polynomial order"]
         : q \in {SetCoefficients(p, x)}})

\* BezierPolynomial.f0(tt) for an integer tt: [val |-> value, err |-> panic message]
f0(p, tt) ==
    CASE p.n = 1 -> [val |-> LAdd(p.a, LMul(tt, p.b)), err |-> ""]
      [] p.n = 2 -> [val |-> LAdd(p.a, LMul(tt, LAdd(p.b, LMul(tt, p.c)))), err |-> ""]
      [] p.n = 3 ->
           [val |-> LAdd(p.a, LMul(tt, LAdd(p.b, LMul(tt, LAdd(p.c, LMul(tt, p.d)))))),
            err |-> ""]
      [] p.n = 4 ->
           [val |-> LAdd(p.a, LMul(tt, LAdd(p.b, LMul(tt, LAdd(p.c,
                        LMul(tt, LAdd(p.d, LMul(tt, p.e)))))))),
            err |-> ""]
      [] OTHER -> [val |-> LZero, err |-> "bad polynomial order"]

-----------------------------------------------------------------------------
(* BezierSpline *)

\* NewBezierSpline(p): [s |-> the spline, err |-> panic message of Set]
NewBezierSpline(p) ==
    The({[s |-> [pts |-> p, px |-> sx.p, py |-> sy.p],
          err |-> IF sx.err # "" THEN sx.err ELSE sy.err]
         : sx \in {Set(PolyZero, x) : x \in {[i \in 1..Len(p) |-> Lim(p[i][1])]}},
           sy \in {Set(PolyZero, y) : y \in {[i \in 1..Len(p) |-> Lim(p[i][2])]}}})

\* BezierSpline.order
order(s) == s.px.n

\* BezierSpline.f0(tt) for an integer tt
SplineF0(s, tt) == <<f0(s.px, tt).val, f0(s.py, tt).val>>

-----------------------------------------------------------------------------
(* Fixups *)

\* the iteration without the two assignments that clear the handles of v
HandlesOf_KeepHandles(v) ==
    LET fwd == v.handle_fwd
        rev == v.handle_rev
        cpRev == [BezierVertexZero EXCEPT
                    !.vtype = MIDPOINT,
                    !.vertex = V2Add(PolarToXY(rev[1], rev[2]), v.vertex)]
        cpFwd == [BezierVertexZero EXCEPT
                    !.vtype = MIDPOINT,
                    !.vertex = V2Add(PolarToXY(fwd[1], fwd[2]), v.vertex)]
    IN (IF rev[1] # 0 THEN <<cpRev>> ELSE <<>>)
       \o <<v>>
       \o (IF fwd[1] # 0 THEN <<cpFwd>> ELSE <<>>)

\* the iteration with the reverse handle's midpoint appended after the vertex
HandlesOf_RevAfter(v) ==
    LET fwd == v.handle_fwd
        rev == v.handle_rev
        w == [v EXCEPT !.handle_fwd = V2Zero, !.handle_rev = V2Zero]
        cpRev == [BezierVertexZero EXCEPT
                    !.vtype = MIDPOINT,
                    !.vertex = V2Add(PolarToXY(rev[1], rev[2]), v.vertex)]
        cpFwd == [BezierVertexZero EXCEPT
                    !.vtype = MIDPOINT,
                    !.vertex = V2Add(PolarToXY(fwd[1], fwd[2]), v.vertex)]
    IN <<w>>
       \o (IF rev[1] # 0 THEN <<cpRev>> ELSE <<>>)
       \o (IF fwd[1] # 0 THEN <<cpFwd>> ELSE <<>>)

\* one iteration of the loop of handles(): the vertices appended for vertex v
HandlesOf(v) ==
    LET fwd == v.handle_fwd
        rev == v.handle_rev
        w == [v EXCEPT !.handle_fwd = V2Zero, !.handle_rev = V2Zero]
        cpRev == [BezierVertexZero EXCEPT
                    !.vtype = MIDPOINT,
                    !.vertex = V2Add(PolarToXY(rev[1], rev[2]), v.vertex)]
        cpFwd == [BezierVertexZero EXCEPT
                    !.vtype = MIDPOINT,
                    !.vertex = V2Add(PolarToXY(fwd[1], fwd[2]), v.vertex)]
    IN (IF rev[1] # 0 THEN <<cpRev>> ELSE <<>>)
       \o <<w>>
       \o (IF fwd[1] # 0 THEN <<cpFwd>> ELSE <<>>)

\* the first loop of handles(): the new control vertex list
RECURSIVE Expand(_)
Expand(vl) ==
    IF vl = <<>> THEN <<>> ELSE HandlesOf(Head(vl)) \o Expand(Tail(vl))

\* the second loop of handles(): the (0-based) index i it ends with
RECURSIVE FirstEndpointFrom(_, _)
FirstEndpointFrom(vl, i) ==
    IF vl[i + 1].vtype = ENDPOINT \/ i + 1 = Len(vl)
    THEN i
    ELSE FirstEndpointFrom(vl, i + 1)

FirstEndpoint(vl) == IF vl = <<>> THEN 0 ELSE FirstEndpointFrom(vl, 0)

\* append(vlist[i:], vlist[:i]...)
Rotate(vl, i) ==
    IF i # 0 THEN SubSeq(vl, i + 1, Len(vl)) \o SubSeq(vl, 1, i) ELSE vl

\* Bezier.handles: the vertex list it leaves in b.vlist
handles(vl) ==
    The({Rotate(ex, FirstEndpoint(ex)) : ex \in {Expand(vl)}})

\* closure that appends the first vertex also when the last one equals it
closure_AlwaysAppend(vl, cl) ==
    IF ~cl THEN [vlist |-> vl, err |-> ""]
    ELSE IF vl = <<>> THEN [vlist |-> vl, err |-> "index out of range"]
    ELSE IF vl[1].vtype # ENDPOINT
    THEN [vlist |-> vl, err |-> "first control vertex should be an endpoint"]
    ELSE [vlist |-> Append(vl, vl[1]), err |-> ""]

\* Bezier.closure: [vlist |-> b.vlist afterwards, err |-> panic message]
closure(vl, cl) ==
    IF ~cl THEN [vlist |-> vl, err |-> ""]
    ELSE IF vl = <<>> THEN [vlist |-> vl, err |-> "index out of range"]
    ELSE LET first == vl[1]
             last == vl[Len(vl)]
         IN IF first.vtype # ENDPOINT
            THEN [vlist |-> vl, err |-> "first control vertex should be an endpoint"]
            ELSE IF last.vtype = ENDPOINT
            THEN IF ~Equals(last.vertex, first.vertex)
                 THEN [vlist |-> Append(vl, first), err |-> ""]
                 ELSE [vlist |-> vl, err |-> ""]
            ELSE IF last.vtype = MIDPOINT
            THEN [vlist |-> Append(vl, first), err |-> ""]
            ELSE [vlist |-> vl, err |-> "bad vertex type"]

\* Bezier.validate: the panic message, "" when it returns
validate(vl, cl) ==
    LET n == Len(vl)
    IN IF n < 2 THEN "bezier curve must have at least two points"
       ELSE IF vl[1].vtype # ENDPOINT THEN "bezier curve must start with an endpoint"
       ELSE IF ~cl /\ vl[n].vtype # ENDPOINT
       THEN "non-closed bezier curve must end with an endpoint"
       ELSE ""

\* Bezier.fixups: [vlist |-> b.vlist afterwards, err |-> panic message]
fixups(vl, cl) ==
    The({IF c.err # "" THEN c ELSE [vlist |-> c.vlist, err |-> validate(c.vlist, cl)]
         : c \in {closure(h, cl) : h \in {handles(vl)}}})

-----------------------------------------------------------------------------
(* Polygon *)

\* the local variables of the segmentation loop when Polygon() enters it
SegmentStart == [i |-> 0, state |-> ENDPOINT, vertices |-> <<>>, splines |-> <<>>]

\* the iteration that also advances the index when it ends a spline
SegmentIter_Advance(vl, st) ==
    LET n == Len(vl)
        i == st.i
        v == vl[i + 1]
    IN IF st.state = ENDPOINT
       THEN IF v.vtype = ENDPOINT
            THEN [st |-> [st EXCEPT !.vertices = <<v.vertex>>, !.i = i + 1, !.state = MIDPOINT],
                  brk |-> FALSE, err |-> ""]
            ELSE [st |-> st, brk |-> FALSE, err |-> "bad vertex type"]
       ELSE IF v.vtype = ENDPOINT
       THEN The({[st |-> [st EXCEPT !.vertices = ns.s.pts,
                                    !.splines = IF ns.err = ""
                                                THEN Append(st.splines, ns.s)
                                                ELSE st.splines,
                                    !.i = i + 1,
                                    !.state = ENDPOINT],
                  brk |-> (i = n - 1),
                  err |-> ns.err]
                 : ns \in {NewBezierSpline(vs) : vs \in {Append(st.vertices, v.vertex)}}})
       ELSE [st |-> [st EXCEPT !.vertices = Append(st.vertices, v.vertex), !.i = i + 1],
             brk |-> FALSE, err |-> ""]

\* one iteration of the segmentation loop of Polygon() on the locals st:
\* [st |-> the locals afterwards, brk |-> it left by break, err |-> panic message]
SegmentIter(vl, st) ==
    LET n == Len(vl)
        i == st.i
        v == vl[i + 1]
    IN IF st.state = ENDPOINT
       THEN IF v.vtype = ENDPOINT
            THEN [st |-> [st EXCEPT !.vertices = <<v.vertex>>, !.i = i + 1, !.state = MIDPOINT],
                  brk |-> FALSE, err |-> ""]
            ELSE [st |-> st, brk |-> FALSE, err |-> "bad vertex type"]
       ELSE IF st.state = MIDPOINT
       THEN IF v.vtype = ENDPOINT
            THEN The({[st |-> [st EXCEPT !.vertices = ns.s.pts,
                                         !.splines = IF ns.err = ""
                                                     THEN Append(st.splines, ns.s)
                                                     ELSE st.splines,
                                         !.state = ENDPOINT],
                       brk |-> (i = n - 1),
                       err |-> ns.err]
                      : ns \in {NewBezierSpline(vs) : vs \in {Append(st.vertices, v.vertex)}}})
            ELSE IF v.vtype = MIDPOINT
            THEN [st |-> [st EXCEPT !.vertices = Append(st.vertices, v.vertex), !.i = i + 1],
                  brk |-> FALSE, err |-> ""]
            ELSE [st |-> st, brk |-> FALSE, err |-> "bad vertex type"]
       ELSE [st |-> st, brk |-> FALSE, err |-> "bad state"]

\* the segmentation loop of Polygon() from the locals st:
\* [splines |-> the splines built, err |-> panic message]
RECURSIVE Segment(_, _)
Segment(vl, st) ==
    IF ~(st.i < Len(vl))
    THEN [splines |-> st.splines, err |-> ""]
    ELSE The({IF r.err # "" \/ r.brk
              THEN [splines |-> r.st.splines, err |-> r.err]
              ELSE Segment(vl, r.st)
              : r \in {SegmentIter(vl, st)}})

\* the rendering loop of Polygon(): per spline its order and the first and
\* the last point it adds, f0(0) and f0(1)
Render(spl) ==
    [j \in 1..Len(spl) |->
        [order |-> order(spl[j]), first |-> SplineF0(spl[j], 0), last |-> SplineF0(spl[j], 1)]]

\* Bezier.Polygon: b.vlist afterwards, the panic message, the splines built
\* and the polygon returned (none of the two when it panics)
PolygonOf(vl, cl) ==
    The({IF f.err # ""
         THEN [vlist |-> f.vlist, err |-> f.err, splines |-> <<>>, polygon |-> <<>>]
         ELSE The({IF g.err # ""
                   THEN [vlist |-> f.vlist, err |-> g.err, splines |-> <<>>, polygon |-> <<>>]
                   ELSE [vlist |-> f.vlist, err |-> "", splines |-> g.splines,
                         polygon |-> Render(g.splines)]
                   : g \in {Segment(f.vlist, SegmentStart)}})
         : f \in {fixups(vl, cl)}})

-----------------------------------------------------------------------------
(* The curve: builder calls and Polygon() *)

NoCurve == [vlist |-> <<>>, closed |-> FALSE]

CurveInit ==
    /\ vlist = <<>>
    /\ closed = FALSE
    /\ pc = "build"
    /\ err = ""
    /\ pre = NoCurve
    /\ splines = <<>>
    /\ polygon = <<>>

\* NewBezier(): start over with an empty curve
NewBezier ==
    /\ pc # "build" \/ vlist # <<>> \/ closed
    /\ vlist' = <<>>
    /\ closed' = FALSE
    /\ pc' = "build"
    /\ err' = ""
    /\ pre' = NoCurve
    /\ splines' = <<>>
    /\ polygon' = <<>>

\* b.Close()
Close ==
    /\ pc = "build"
    /\ closed' = TRUE
    /\ err' = ""
    /\ UNCHANGED <<vlist, pc, pre, splines, polygon>>

\* b.Add(x, y)
Add(x) ==
    /\ pc = "build"
    /\ Len(vlist) < MaxVerts
    /\ vlist' = AddV2(vlist, x)
    /\ err' = ""
    /\ UNCHANGED <<closed, pc, pre, splines, polygon>>

\* v.Mid() on the i-th vertex
Mid(i) ==
    /\ pc = "build"
    /\ vlist' = [vlist EXCEPT ![i] = MidV(vlist[i])]
    /\ err' = ""
    /\ UNCHANGED <<closed, pc, pre, splines, polygon>>

\* the effect of a handle call with result r on the i-th vertex
HandleCall(i, r) ==
    /\ pc = "build"
    /\ vlist' = [vlist EXCEPT ![i] = r.v]
    /\ err' = r.err
    /\ pc' = IF r.err # "" THEN "panic" ELSE pc
    /\ UNCHANGED <<closed, pre, splines, polygon>>

\* v.HandleFwd(theta, r) on the i-th vertex
HandleFwd(i, theta, r) == \E res \in {HandleFwdV(vlist[i], theta, r)} : HandleCall(i, res)

\* v.HandleRev(theta, r) on the i-th vertex
HandleRev(i, theta, r) == \E res \in {HandleRevV(vlist[i], theta, r)} : HandleCall(i, res)

\* v.Handle(theta, fwd, rev) on the i-th vertex
Handle(i, theta, fwd, rev) ==
    \E res \in {HandleV(vlist[i], theta, fwd, rev)} : HandleCall(i, res)

\* b.Polygon()
Polygon ==
    /\ pc \in {"build", "done"}
    /\ \E r \in {PolygonOf(vlist, closed)} :
          /\ vlist' = r.vlist
          /\ err' = r.err
          /\ splines' = r.splines
          /\ polygon' = r.polygon
    /\ pre' = [vlist |-> vlist, closed |-> closed]
    /\ pc' = "done"
    /\ UNCHANGED closed

-----------------------------------------------------------------------------
(* BezierPolynomial.Set on its own *)

\* control values Set is called with: 0, 1, U and U + 1
CtrlVals == {<<0, 0>>, <<0, 1>>, <<1, 0>>, <<1, 1>>}

CtrlLists == UNION {[1..n -> CtrlVals] : n \in 1..MaxCtrl}

PolyInit ==
    /\ poly = PolyZero
    /\ ctrl \in CtrlLists
    /\ perr = ""
    /\ ppc = "new"

\* p.Set(x) on the polynomial of a new spline
PolySet ==
    /\ ppc = "new"
    /\ \E r \in {Set(poly, ctrl)} :
          /\ poly' = r.p
          /\ perr' = r.err
    /\ ppc' = "set"
    /\ UNCHANGED ctrl

-----------------------------------------------------------------------------
(* The sampling loop of Polygon() for one spline *)

\* k, the number of baseline samples
K == 1000
\* epsilon (0.1 rad), in milliradians
EpsilonMilli == 100
\* the values of dtheta, in milliradians
DThetas == {0, 5, 100, 300}

\* t, counted in units of dtmin = 1/(k-1): the value 1.0, and +Inf
TOne == K - 1
TInf == K * K

\* the step with a dtheta of 0 taken as no step at all
Step_NoneOnZero(dtheta) ==
    IF dtheta < EpsilonMilli
    THEN IF dtheta = 0 THEN 0 ELSE EpsilonMilli \div dtheta
    ELSE 1

\* the step the loop adds to t, in units of dtmin
Step(dtheta) ==
    IF dtheta < EpsilonMilli
    THEN IF dtheta = 0 THEN TInf ELSE EpsilonMilli \div dtheta
    ELSE 1

\* t + step on float64: +Inf absorbs
TAdd(tt, step) == IF tt + step >= TInf THEN TInf ELSE tt + step

\* the loop condition t < 1.0 can hold: a sum of steps that is 1.0 in exact
\* arithmetic may have been rounded below 1.0
MayLoop(tt) == tt < TOne \/ (tt = TOne /\ tt # 0)
\* the loop condition t < 1.0 can fail
MayExit(tt) == tt >= TOne

SampleInit ==
    /\ sorder \in 1..4
    /\ t = 0
    /\ npts = 0
    /\ firstT = -1
    /\ lastT = -1
    /\ spc = "loop"

\* order 1: p.AddV2(s.f0(0)); p.AddV2(s.f0(1))
SampleLinear ==
    /\ spc = "loop"
    /\ sorder = 1
    /\ npts' = npts + 2
    /\ firstT' = 0
    /\ lastT' = TOne
    /\ spc' = "done"
    /\ UNCHANGED <<sorder, t>>

\* one iteration of the loop for t < 1.0
SampleStep(dtheta) ==
    /\ spc = "loop"
    /\ sorder # 1
    /\ MayLoop(t)
    /\ npts' = npts + 1
    /\ firstT' = IF npts = 0 THEN t ELSE firstT
    /\ lastT' = t
    /\ t' = TAdd(t, Step(dtheta))
    /\ UNCHANGED <<sorder, spc>>

\* the loop ends: p.AddV2(s.f0(1))
SampleExit ==
    /\ spc = "loop"
    /\ sorder # 1
    /\ MayExit(t)
    /\ npts' = npts + 1
    /\ lastT' = TOne
    /\ spc' = "done"
    /\ UNCHANGED <<sorder, t, firstT>>

\* the next spline of the range loop
SampleNextSpline ==
    /\ spc = "done"
    /\ \E o \in 1..4 : sorder' = o
    /\ t' = 0
    /\ npts' = 0
    /\ firstT' = -1
    /\ lastT' = -1
    /\ spc' = "loop"

-----------------------------------------------------------------------------
(* Curves without handles, as Add and Mid build them: the k-th vertex is at <<k, 0>> *)

PlainVertex(k, ty) == [BezierVertexZero EXCEPT !.vtype = ty, !.vertex = <<k, 0>>]

PlainLists ==
    UNION {{[k \in 1..n |-> PlainVertex(k, ty[k])] : ty \in [1..n -> {ENDPOINT, MIDPOINT}]}
           : n \in 0..MaxSegLen}

SegInit ==
    /\ vlist \in PlainLists
    /\ closed \in BOOLEAN
    /\ pc = "build"
    /\ err = ""
    /\ pre = NoCurve
    /\ splines = <<>>
    /\ polygon = <<>>

-----------------------------------------------------------------------------
(* Specifications *)

Init == CurveInit /\ PolyInit /\ ctrl = <<<<0, 0>>>> /\ SampleInit /\ sorder = 1

Next ==
    \/ NewBezier /\ UNCHANGED <<polyVars, sampleVars>>
    \/ Close /\ UNCHANGED <<polyVars, sampleVars>>
    \/ \E x \in Coords : Add(x) /\ UNCHANGED <<polyVars, sampleVars>>
    \/ \E i \in 1..Len(vlist) : Mid(i) /\ UNCHANGED <<polyVars, sampleVars>>
    \/ \E i \in 1..Len(vlist), r \in FwdRadii :
          HandleFwd(i, 0, r) /\ UNCHANGED <<polyVars, sampleVars>>
    \/ \E i \in 1..Len(vlist), r \in RevRadii :
          HandleRev(i, PI, r) /\ UNCHANGED <<polyVars, sampleVars>>
    \/ \E i \in 1..Len(vlist), f \in FwdRadii, r \in RevRadii :
          Handle(i, 0, f, r) /\ UNCHANGED <<polyVars, sampleVars>>
    \/ Polygon /\ UNCHANGED <<polyVars, sampleVars>>

\* the builder and Polygon()
Spec == Init /\ [][Next]_vars

InitPoly == CurveInit /\ PolyInit /\ SampleInit /\ sorder = 1

NextPoly == PolySet /\ UNCHANGED <<curveVars, sampleVars>>

\* Set on every list of control values
SpecPoly == InitPoly /\ [][NextPoly]_vars

InitSample == CurveInit /\ PolyInit /\ ctrl = <<<<0, 0>>>> /\ SampleInit

NextSample ==
    \/ SampleLinear /\ UNCHANGED <<curveVars, polyVars>>
    \/ \E dtheta \in DThetas : SampleStep(dtheta) /\ UNCHANGED <<curveVars, polyVars>>
    \/ SampleExit /\ UNCHANGED <<curveVars, polyVars>>
    \/ SampleNextSpline /\ UNCHANGED <<curveVars, polyVars>>

\* the sampling loop; the loop keeps running until it exits
SpecSample == InitSample /\ [][NextSample]_vars /\ WF_vars(NextSample)

InitSeg == SegInit /\ PolyInit /\ ctrl = <<<<0, 0>>>> /\ SampleInit /\ sorder = 1

NextSeg == Polygon /\ UNCHANGED <<polyVars, sampleVars>>

\* Polygon() on every curve without handles of at most MaxSegLen vertices
SpecSeg == InitSeg /\ [][NextSeg]_vars

-----------------------------------------------------------------------------
(* Properties of the fixups pipeline *)

ValidateErrors ==
    {"bezier curve must have at least two points",
     "bezier curve must start with an endpoint",
     "non-closed bezier curve must end with an endpoint"}

ClosureErrors ==
    {"index out of range", "first control vertex should be an endpoint", "bad vertex type"}

\* the three conditions validate() rejects
InvalidCurve(vl, cl) ==
    \/ Len(vl) < 2
    \/ vl[1].vtype # ENDPOINT
    \/ ~cl /\ vl[Len(vl)].vtype # ENDPOINT

\* C1: whenever the vertex list left by handle expansion and closure has fewer
\* than 2 vertices, or does not start with an Endpoint, or the curve is open
\* and the list does not end with an Endpoint, Polygon() fails with a
\* validation error and returns no polygon; otherwise validation passes.
C1_ValidationRejects ==
    pc = "done" =>
        IF InvalidCurve(vlist, closed)
        THEN err \in ValidateErrors /\ polygon = <<>>
        ELSE err \notin ValidateErrors /\ err \notin ClosureErrors

\* the number of handles with a non-zero radius
NumHandles(vl) ==
    Cardinality({k \in 1..Len(vl) : vl[k].handle_rev[1] # 0})
    + Cardinality({k \in 1..Len(vl) : vl[k].handle_fwd[1] # 0})

\* C2: closure leaves the list of an open curve unchanged.  On a closed curve
\* whose first vertex is an Endpoint it appends nothing when the last vertex
\* is an Endpoint with the coordinates of the first, and exactly one copy of
\* the first vertex when the last vertex is an Endpoint elsewhere or a
\* Midpoint; afterwards the last vertex is an Endpoint at the coordinates of
\* the first and a second closure appends nothing.
C2_Closure ==
    pc = "done" =>
        \A h \in {handles(pre.vlist)} :
            /\ ~closed => vlist = h
            /\ (closed /\ h # <<>> /\ h[1].vtype = ENDPOINT) =>
                  /\ LET first == h[1]
                         last == h[Len(h)]
                     IN IF last.vtype = ENDPOINT /\ last.vertex = first.vertex
                        THEN vlist = h
                        ELSE vlist = Append(h, first)
                  /\ vlist[Len(vlist)].vtype = ENDPOINT
                  /\ vlist[Len(vlist)].vertex = vlist[1].vertex
                  /\ closure(vlist, closed).vlist = vlist

\* closure has appended the first vertex after a last Midpoint
C2_Witness ==
    /\ pc = "done"
    /\ closed
    /\ err = ""
    /\ \E h \in {handles(pre.vlist)} :
          /\ h[Len(h)].vtype = MIDPOINT
          /\ Len(vlist) = Len(h) + 1

\* C3 as stated: Polygon() leaves the curve's vertex list and closed flag as
\* they were.
C3_CurveUnchanged ==
    pc = "done" => vlist = pre.vlist /\ closed = pre.closed

\* C3, amended: Polygon() leaves the closed flag as it was, and leaves in the
\* curve's vertex list the list of its fixups: every handle is cleared and the
\* list has one more vertex per handle of non-zero radius, plus one when
\* closure appended.  The list is as it was if no handle was set, it was empty
\* or started with an Endpoint, and closure had nothing to append.
C3_PolygonReplacesList ==
    pc = "done" =>
        /\ closed = pre.closed
        /\ \A k \in 1..Len(vlist) :
              vlist[k].handle_fwd = V2Zero /\ vlist[k].handle_rev = V2Zero
        /\ Len(vlist) - Len(pre.vlist) - NumHandles(pre.vlist) \in {0, 1}
        /\ Len(vlist) - Len(pre.vlist) - NumHandles(pre.vlist) = 1 => closed /\ err \notin ClosureErrors
        /\ LET vl == pre.vlist
           IN (/\ \A k \in 1..Len(vl) :
                     vl[k].handle_fwd = V2Zero /\ vl[k].handle_rev = V2Zero
               /\ vl = <<>> \/ vl[1].vtype = ENDPOINT
               /\ \/ ~closed
                  \/ vl = <<>>
                  \/ vl[Len(vl)].vtype = ENDPOINT /\ vl[Len(vl)].vertex = vl[1].vertex)
              => vlist = vl

\* Polygon() has returned a polygon and left a longer vertex list in the curve
C3_Witness ==
    /\ pc = "done"
    /\ err = ""
    /\ polygon # <<>>
    /\ Len(vlist) > Len(pre.vlist)
    /\ NumHandles(pre.vlist) > 0

\* the index in Expand(vl) of the k-th vertex of vl according to C5: one
\* place per earlier vertex and per non-zero handle of an earlier vertex, and
\* one more for its own reverse handle
ExpandedIndex(vl, k) ==
    k + NumHandles(SubSeq(vl, 1, k - 1)) + (IF vl[k].handle_rev[1] # 0 THEN 1 ELSE 0)

\* a Midpoint made by handles(): no handles of its own
NewMidpoint(v) ==
    v.vtype = MIDPOINT /\ v.handle_fwd = V2Zero /\ v.handle_rev = V2Zero

\* C5: handle expansion puts, for every vertex in order, a new Midpoint right
\* before it iff its reverse handle has a non-zero radius, the vertex with its
\* handles cleared and its tag and coordinates kept, and a new Midpoint right
\* after it iff its forward handle has a non-zero radius, and nothing else:
\* the expanded length is the length plus the number of non-zero handles.
C5_HandleExpansion ==
    pc = "done" =>
        \A vl \in {pre.vlist} : \A ex \in {Expand(vl)} :
            /\ Len(ex) = Len(vl) + NumHandles(vl)
            /\ \A k \in 1..Len(vl) : \A j \in {ExpandedIndex(vl, k)} :
                  /\ ex[j] = [vl[k] EXCEPT !.handle_fwd = V2Zero, !.handle_rev = V2Zero]
                  /\ vl[k].handle_rev[1] # 0 => NewMidpoint(ex[j - 1])
                  /\ vl[k].handle_fwd[1] # 0 => NewMidpoint(ex[j + 1])
                  /\ j + (IF vl[k].handle_fwd[1] # 0 THEN 1 ELSE 0)
                       = k + NumHandles(SubSeq(vl, 1, k))

\* Polygon() ran on a curve with a vertex that has both handles and a vertex
\* that has none
C5_Witness ==
    /\ pc = "done"
    /\ \E k \in 1..Len(pre.vlist) :
          pre.vlist[k].handle_rev[1] # 0 /\ pre.vlist[k].handle_fwd[1] # 0
    /\ \E k \in 1..Len(pre.vlist) :
          pre.vlist[k].handle_rev[1] = 0 /\ pre.vlist[k].handle_fwd[1] = 0
    /\ Len(vlist) >= Len(pre.vlist) + 2

\* C6: the list handles() leaves is the expanded list rotated to start at its
\* first Endpoint, so the closure step of a closed curve always finds an
\* Endpoint first and never fails.
C6_ClosureNeverFails ==
    (pc = "done" /\ closed) =>
        /\ err \notin ClosureErrors
        /\ \A ex \in {Expand(pre.vlist)} : \A h \in {handles(pre.vlist)} :
              /\ h[1].vtype = ENDPOINT
              /\ \E i \in 1..Len(ex) :
                    /\ ex[i].vtype = ENDPOINT
                    /\ \A j \in 1..(i - 1) : ex[j].vtype = MIDPOINT
                    /\ h = SubSeq(ex, i, Len(ex)) \o SubSeq(ex, 1, i - 1)

HandleOnMidpoint == "can't place a handle on a curve midpoint"

\* C7: HandleFwd, HandleRev and Handle on a Midpoint fail and leave the vertex
\* as it was; on an Endpoint they return and the handles they store have a
\* non-negative radius, the tag and the coordinates staying as they were.
\* Stated of the three calls on every vertex of every curve built, and of the
\* steps of the builder: a step that panics changes nothing, and a step that
\* changes a handle changes one of an Endpoint.
C7_HandleOnMidpoint ==
    /\ [](pc = "build" =>
            \A i \in 1..Len(vlist) : \A f \in FwdRadii, r \in RevRadii :
               \A res \in {HandleFwdV(vlist[i], 0, f), HandleRevV(vlist[i], PI, r),
                           HandleV(vlist[i], 0, f, r)} :
                  IF vlist[i].vtype = MIDPOINT
                  THEN res.err = HandleOnMidpoint /\ res.v = vlist[i]
                  ELSE /\ res.err = ""
                       /\ res.v.vtype = vlist[i].vtype
                       /\ res.v.vertex = vlist[i].vertex
                       /\ res.v.handle_fwd[1] >= 0
                       /\ res.v.handle_rev[1] >= 0)
    /\ [][(pc = "build" /\ pc' = "panic") =>
             /\ err' = HandleOnMidpoint
             /\ vlist' = vlist
             /\ closed' = closed
             /\ \E i \in 1..Len(vlist) : vlist[i].vtype = MIDPOINT]_vars
    /\ [][(pc = "build" /\ pc' = "build" /\ Len(vlist') = Len(vlist)) =>
             \A i \in 1..Len(vlist) :
                (\/ vlist'[i].handle_fwd # vlist[i].handle_fwd
                 \/ vlist'[i].handle_rev # vlist[i].handle_rev) =>
                    /\ err' = ""
                    /\ vlist[i].vtype = ENDPOINT
                    /\ vlist'[i].vtype = ENDPOINT
                    /\ vlist'[i].vertex = vlist[i].vertex
                    /\ vlist'[i].handle_fwd[1] >= 0
                    /\ vlist'[i].handle_rev[1] >= 0]_vars

\* a handle call on a Midpoint has failed
C7_Witness ==
    /\ pc = "panic"
    /\ err = HandleOnMidpoint
    /\ \E i \in 1..Len(vlist) : vlist[i].vtype = MIDPOINT

-----------------------------------------------------------------------------
(* Properties of the segmentation loop *)

BadOrder == "bad polynomial order"

\* Polygon() got past fixups
FixupsPassed == pc = "done" /\ err \notin ValidateErrors /\ err \notin ClosureErrors

Endpoints(vl) == {k \in 1..Len(vl) : vl[k].vtype = ENDPOINT}

\* the pairs of Endpoints with only Midpoints between them
Runs(vl) ==
    {r \in Endpoints(vl) \X Endpoints(vl) :
        r[1] < r[2] /\ \A k \in (r[1] + 1)..(r[2] - 1) : vl[k].vtype = MIDPOINT}

\* a run of more than 3 Midpoints
LongRun(vl) == \E r \in Runs(vl) : r[2] - r[1] - 1 > 3

\* the index of the j-th Endpoint, j = 0, 1, ...
EndpointAt(vl, j) ==
    CHOOSE k \in Endpoints(vl) : Cardinality({i \in Endpoints(vl) : i < k}) = j

\* the coordinates of the vertices at indices a..b, in order
PointsAt(vl, a, b) == [k \in 1..(b - a + 1) |-> vl[a + k - 1].vertex]

\* C4: if the fixed-up list has more than 3 Midpoints between two Endpoints,
\* Polygon() fails in the segmentation and returns nothing, also no points of
\* earlier splines; otherwise every run becomes one spline whose order is the
\* number of its points minus 1, in 1..4.
C4_TooManyMidpoints ==
    FixupsPassed =>
        IF LongRun(vlist)
        THEN err = BadOrder /\ splines = <<>> /\ polygon = <<>>
        ELSE /\ err = ""
             /\ Len(splines) = Cardinality(Runs(vlist))
             /\ Len(polygon) = Len(splines)
             /\ \A r \in Runs(vlist) :
                   \E j \in 1..Len(splines) : splines[j].pts = PointsAt(vlist, r[1], r[2])
             /\ \A j \in 1..Len(splines) :
                   /\ order(splines[j]) = Len(splines[j].pts) - 1
                   /\ order(splines[j]) \in 1..4
                   /\ splines[j].py.n = order(splines[j])
                   /\ polygon[j].order = order(splines[j])

\* Polygon() failed on a run of 4 Midpoints that follows a well-formed spline
C4_Witness ==
    /\ FixupsPassed
    /\ err = BadOrder
    /\ polygon = <<>>
    /\ vlist[2].vtype = ENDPOINT
    /\ \E r \in Runs(vlist) : r[1] > 1 /\ r[2] - r[1] - 1 = 4

\* the splines are those of the Endpoints e0 < e1 < ... < em: m splines, the
\* j-th from the points at e(j-1)..e(j)
SplinesByEndpoints ==
    /\ err = ""
    /\ Len(splines) = Cardinality(Endpoints(vlist)) - 1
    /\ \A j \in 1..Len(splines) :
          splines[j].pts
            = PointsAt(vlist, EndpointAt(vlist, j - 1), EndpointAt(vlist, j))

\* C10 as stated: the segmentation of every list that passed validation ends
\* with one spline per pair of successive Endpoints, built from the points
\* between them, both Endpoints included.
C10_Segmentation == FixupsPassed => SplinesByEndpoints

\* C10, amended: the same, for the lists that passed validation and have at
\* most 3 Midpoints between successive Endpoints; with a longer run the
\* segmentation ends in the panic of Set and builds no spline.
C10_SegmentationOfShortRuns ==
    FixupsPassed =>
        IF LongRun(vlist) THEN err = BadOrder /\ splines = <<>> ELSE SplinesByEndpoints

\* three splines or more, a quartic and a line among them
C10_Witness ==
    /\ FixupsPassed
    /\ err = ""
    /\ Len(splines) >= 3
    /\ \E j \in 1..Len(splines) : order(splines[j]) = 4
    /\ \E j \in 1..Len(splines) : order(splines[j]) = 1

-----------------------------------------------------------------------------
(* Properties of the sampling loop *)

\* C8: a spline of order 1 adds exactly 2 points.  For a spline of order 2..4
\* t grows by at least dtmin in every iteration of the loop, whatever dtheta
\* is, 0 included; the loop ends, and the spline adds at least 2 and at most
\* 1001 points, the first f0(0) and the last f0(1).
C8_SamplingTerminates ==
    /\ [](npts <= K + 1)
    /\ [](spc = "done" =>
            /\ sorder = 1 => npts = 2
            /\ npts >= 2
            /\ firstT = 0
            /\ lastT = TOne)
    /\ [][(spc = "loop" /\ spc' = "loop") => (t' >= t + 1 /\ npts' = npts + 1)]_vars
    /\ (spc = "loop") ~> (spc = "done")

\* a spline of order 2..4 has added 1001 points
C8_Witness ==
    /\ spc = "done"
    /\ sorder \in 2..4
    /\ npts = K + 1

-----------------------------------------------------------------------------
(* Properties of Set *)

\* the sum of the n+1 coefficients of p
CoefSum(p) ==
    CASE p.n = 1 -> LAdd(p.a, p.b)
      [] p.n = 2 -> LAdd(LAdd(p.a, p.b), p.c)
      [] p.n = 3 -> LAdd(LAdd(p.a, p.b), LAdd(p.c, p.d))
      [] p.n = 4 -> LAdd(LAdd(LAdd(p.a, p.b), LAdd(p.c, p.d)), p.e)

\* the sum of the magnitudes of the coefficients of p
CoefAbsSum(p) ==
    LAdd(LAdd(LAdd(LAbs(p.a), LAbs(p.b)), LAdd(LAbs(p.c), LAbs(p.d))), LAbs(p.e))

\* |x| <= 1e-12 * s, up to less than one unit of the low limb
SmallBeside(x, s) == LAbs(x)[1] = 0 /\ LAbs(x)[2] <= POLY_EPSILON_U * s[1]

Coefficients == {"a", "b", "c", "d", "e"}

\* C9 as stated: after Set, zeroing step included, f0(0) is the first control
\* value and f0(1) the last.
C9_BoundaryExact ==
    (ppc = "set" /\ perr = "") =>
        /\ f0(poly, 0).val = ctrl[1]
        /\ f0(poly, 1).val = ctrl[Len(ctrl)]

\* C9, amended: the coefficients Set computes before the zeroing step have
\* a = x0 and sum to xn.  The zeroing step replaces by 0 only coefficients of
\* magnitude at most 1e-12 times the sum of the magnitudes, so f0(0) is x0, or
\* 0 for such an x0, and f0(1) is xn less the coefficients zeroed; both are
\* exact when no coefficient other than 0 is zeroed.
C9_BoundaryUpToZeroing ==
    (ppc = "set" /\ perr = "") =>
        \A q \in {SetCoefficients(PolyZero, ctrl)} :
            /\ q.a = ctrl[1]
            /\ CoefSum(q) = ctrl[Len(ctrl)]
            /\ \A c \in Coefficients :
                  \/ poly[c] = q[c]
                  \/ poly[c] = LZero /\ SmallBeside(q[c], CoefAbsSum(q))
            /\ f0(poly, 0).val = poly.a
            /\ f0(poly, 1).val = CoefSum(poly)
            /\ LAdd(CoefSum(poly), LNeg(CoefSum(q)))
                 = LNeg(LAdd(LAdd(LAdd(LAdd(q.a, LNeg(poly.a)), LAdd(q.b, LNeg(poly.b))),
                                  LAdd(LAdd(q.c, LNeg(poly.c)), LAdd(q.d, LNeg(poly.d)))),
                             LAdd(q.e, LNeg(poly.e))))
            /\ poly = q => (f0(poly, 0).val = ctrl[1] /\ f0(poly, 1).val = ctrl[Len(ctrl)])

\* Set has zeroed the first coefficient of a quartic whose x0 is not 0
C9_Witness ==
    /\ ppc = "set"
    /\ perr = ""
    /\ poly.n = 4
    /\ ctrl[1] # LZero
    /\ f0(poly, 0).val = LZero

\* the vertex carries a forward or a reverse handle of non-zero radius
CarriesHandle(v) == v.handle_fwd[1] # 0 \/ v.handle_rev[1] # 0

\* C11: after any sequence of Add, Mid, HandleFwd, HandleRev, Handle and Close
\* on the vertices of a curve, every vertex that carries a handle of non-zero
\* radius is tagged Endpoint, and so the list handles() expands on Polygon has
\* no Midpoint with a handle to turn into a control point.
C11_HandlesOnlyOnEndpoints ==
    /\ \A i \in 1..Len(vlist) :
          CarriesHandle(vlist[i]) => vlist[i].vtype = ENDPOINT
    /\ pc = "done" =>
          \A i \in 1..Len(pre.vlist) :
             CarriesHandle(pre.vlist[i]) => pre.vlist[i].vtype = ENDPOINT

=============================================================================
